---- MODULE Spec2Model ----
(***************************************************************************)
(* The array-backed binary max-heap of src/src/ds/heap.rs (trait Heap,     *)
(* struct MaxHeap) and the heapsort built on it.                           *)
(*                                                                         *)
(* A heap value is a record [data, size, panic, path, touched]: the two     *)
(* fields of the struct, a flag that records that the operation that       *)
(* produced the value panicked (a failed assert!, an out-of-bounds index,  *)
(* an out-of-bounds Vec::insert or Vec::swap), and two records of what the *)
(* repairs did: the indices their swaps moved on to and the indices of    *)
(* data they used.  Rust vectors are indexed from                          *)
(* 0 and TLA+ sequences from 1: At(d, i) is the Rust expression d[i].      *)
(* Option<usize> is a sequence: None is << >> and Some(v) is << v >>.      *)
(*                                                                         *)
(* binary_search of src/rust/src/search/binary.rs is modelled with usize   *)
(* arithmetic of UsizeBits bits.  An overflowing + or - panics in a build  *)
(* with overflow checks and wraps in a build without them: the operators   *)
(* take the build as the parameter release.                                *)
(*                                                                         *)
(* DoubleLinked of src/rust/src/ds/double.rs is a record [head, tail,      *)
(* nodes, panic]: the two Option<Rc<RefCell<DoubleNode>>> fields, the      *)
(* nodes that some Rc keeps alive, each under an identifier that stands    *)
(* for its address, and the panic flag.  The strong count of a node is the *)
(* number of head, tail, next and prev pointers that hold its identifier.  *)
(***************************************************************************)
EXTENDS Integers, Sequences, FiniteSets

\* data, size: the fields of the MaxHeap.  pc: "heap" between two operations of
\* a heap a caller owns, "sort" inside the loop of heapsort, "done" after
\* heapsort returned, "search" for a caller of binary_search (data is its
\* slice), "panicked" after a panic.  idx: the loop variable of
\* heapsort.  input: the argument of heapsort, or the elements a test still has
\* to push.  last: the operation that led here, its argument, what it returned
\* and the data and size it started from.  list: a DoubleLinked a caller owns
\* (pc is "list"), with the nodes its pointers keep alive.  deque: the sequence
\* of keys a double-ended queue holds after the same pushes and pops.
VARIABLES data, size, pc, idx, input, last, list, deque

vars == <<data, size, pc, idx, input, last, list, deque>>

\* Longest vector handed to from_vec / heapsort, and longest vector push grows.
MaxLen == 4
\* Elements are the integers 0..MaxVal.
MaxVal == 2
\* Longest vector of the navigation specification.
MaxNavLen == 16

\* The width the model gives usize.
UsizeBits == 16

\* Most nodes a DoubleLinked holds.
MaxNodes == 3

Values == 0..MaxVal
Inputs == UNION {[1..n -> Values] : n \in 0..MaxLen}
\* The vectors vec![0; n] of the navigation specification.
NavInputs == {[k \in 1..n |-> 0] : n \in 0..MaxNavLen}

\* The vector of the tests build_heap_from_vec and build_heap_via_push.
TestVec == <<9, 3, 1, 2, 4, 16, 10, 7, 8, 14>>

None == << >>
Some(v) == <<v>>

At(d, i) == d[i + 1]
InBounds(d, i) == i < Len(d)

\* Vec::swap(a, b), both indices in bounds.
swap(d, a, b) == [d EXCEPT ![a + 1] = d[b + 1], ![b + 1] = d[a + 1]]

\* Vec::insert(i, x) for i <= len: everything from i on shifts right by one.
insert(d, i, x) == SubSeq(d, 1, i) \o <<x>> \o SubSeq(d, i + 1, Len(d))

Panic(self) == [self EXCEPT !.panic = TRUE]

length(self) == Len(self.data)

\* parent by the formula of a heap indexed from 1.
parent_from_one(self, node_idx) ==
    IF node_idx # 0 /\ node_idx < self.size
    THEN Some(node_idx \div 2)
    ELSE None

\* parent that answers for every index but the root, inside the heap or not.
parent_unchecked(self, node_idx) ==
    IF node_idx # 0
    THEN Some((node_idx - 1) \div 2)
    ELSE None

parent(self, node_idx) ==
    IF node_idx # 0 /\ node_idx < self.size
    THEN Some((node_idx - 1) \div 2)
    ELSE None

\* left with the child bounded by the length of the vector, not by size.
left_by_length(self, node_idx) ==
    LET l == 2 * node_idx + 1
    IN IF l < Len(self.data) THEN Some(l) ELSE None

left(self, node_idx) ==
    LET l == 2 * node_idx + 1
    IN IF l < self.size THEN Some(l) ELSE None

\* right that takes the length of data for the bound of the child.
right_by_length(self, node_idx) ==
    LET r == 2 * (node_idx + 1)
    IN IF r < Len(self.data) THEN Some(r) ELSE None

right(self, node_idx) ==
    LET r == 2 * (node_idx + 1)
    IN IF r < self.size THEN Some(r) ELSE None

\* usize::ilog2 for n >= 1: the floor of the base-2 logarithm.
RECURSIVE ilog2(_)
ilog2(n) == IF n <= 1 THEN 0 ELSE 1 + ilog2(n \div 2)

\* height that counts the levels, not the edges.
height_in_levels(self) == IF self.size = 0 THEN 0 ELSE ilog2(self.size) + 1

height(self) == IF self.size = 0 THEN 0 ELSE ilog2(self.size)

\* The loop of node_height: go down left until there is no left child.
RECURSIVE go_down_left(_, _, _)
go_down_left(self, i, h) ==
    IF left(self, i) # None
    THEN go_down_left(self, left(self, i)[1], h + 1)
    ELSE h

\* node_height that goes down right.
RECURSIVE go_down_right(_, _, _)
go_down_right(self, i, h) ==
    IF right(self, i) # None
    THEN go_down_right(self, right(self, i)[1], h + 1)
    ELSE h

node_height_right(self, node_idx) ==
    IF node_idx > self.size
    THEN None
    ELSE Some(go_down_right(self, node_idx, 0))

node_height(self, node_idx) ==
    IF node_idx > self.size
    THEN None
    ELSE Some(go_down_left(self, node_idx, 0))

\* heapify_top that compares the right child with the node, not with the
\* largest so far.
RECURSIVE heapify_top_stale(_, _)
heapify_top_stale(self, i) ==
    LET d == self.data
        l == left(self, i)
        r == right(self, i)
    IN IF l # None /\ ~(InBounds(d, l[1]) /\ InBounds(d, i))
       THEN Panic(self)
       ELSE LET largest1 == IF l # None /\ At(d, l[1]) > At(d, i) THEN l[1] ELSE i
            IN IF r # None /\ ~(InBounds(d, r[1]) /\ InBounds(d, i))
               THEN Panic(self)
               ELSE LET largest == IF r # None /\ At(d, r[1]) > At(d, i)
                                   THEN r[1]
                                   ELSE largest1
                    IN IF largest # i
                       THEN heapify_top_stale([self EXCEPT !.data = swap(d, largest, i)],
                                              largest)
                       ELSE self

\* heapify_top that compares the right child by >=, so that it wins a tie.
RECURSIVE heapify_top_right_ties(_, _)
heapify_top_right_ties(self, i) ==
    LET d == self.data
        l == left(self, i)
        r == right(self, i)
    IN IF l # None /\ ~(InBounds(d, l[1]) /\ InBounds(d, i))
       THEN Panic(self)
       ELSE LET largest1 == IF l # None /\ At(d, l[1]) > At(d, i) THEN l[1] ELSE i
            IN IF r # None /\ ~(InBounds(d, r[1]) /\ InBounds(d, largest1))
               THEN Panic(self)
               ELSE LET largest == IF r # None /\ At(d, r[1]) >= At(d, largest1)
                                   THEN r[1]
                                   ELSE largest1
                    IN IF largest # i
                       THEN heapify_top_right_ties([self EXCEPT !.data = swap(d, largest, i)],
                                                   largest)
                       ELSE self

\* path and touched do not exist in the code: path lists the index each swap
\* moves on to, touched collects every index of data the call reads or writes.
RECURSIVE heapify_top(_, _)
heapify_top(self, i) ==
    LET d == self.data
        l == left(self, i)
        r == right(self, i)
    IN IF l # None /\ ~(InBounds(d, l[1]) /\ InBounds(d, i))
       THEN Panic(self)
       ELSE LET largest1 == IF l # None /\ At(d, l[1]) > At(d, i) THEN l[1] ELSE i
            IN IF r # None /\ ~(InBounds(d, r[1]) /\ InBounds(d, largest1))
               THEN Panic(self)
               ELSE LET largest == IF r # None /\ At(d, r[1]) > At(d, largest1)
                                   THEN r[1]
                                   ELSE largest1
                        seen == self.touched
                                  \cup (IF l # None THEN {l[1], i} ELSE {})
                                  \cup (IF r # None THEN {r[1], largest1} ELSE {})
                    IN IF largest # i
                       THEN heapify_top([self EXCEPT !.data = swap(d, largest, i),
                                                     !.path = Append(@, largest),
                                                     !.touched = seen \cup {largest, i}],
                                        largest)
                       ELSE [self EXCEPT !.touched = seen]

\* heapify_bottom that swaps once and does not go on from the parent.
heapify_bottom_once(self, start_node_idx) ==
    LET d == self.data
        p == parent(self, start_node_idx)
    IN IF p = None
       THEN self
       ELSE IF ~(InBounds(d, p[1]) /\ InBounds(d, start_node_idx))
            THEN Panic(self)
            ELSE IF At(d, p[1]) < At(d, start_node_idx)
                 THEN [self EXCEPT !.data = swap(d, p[1], start_node_idx)]
                 ELSE self

RECURSIVE heapify_bottom(_, _)
heapify_bottom(self, start_node_idx) ==
    LET d == self.data
        p == parent(self, start_node_idx)
    IN IF p = None
       THEN self
       ELSE IF ~(InBounds(d, p[1]) /\ InBounds(d, start_node_idx))
            THEN Panic(self)
            ELSE LET seen == self.touched \cup {p[1], start_node_idx}
                 IN IF At(d, p[1]) < At(d, start_node_idx)
                    THEN heapify_bottom([self EXCEPT !.data = swap(d, p[1], start_node_idx),
                                                     !.path = Append(@, p[1]),
                                                     !.touched = seen],
                                        p[1])
                    ELSE [self EXCEPT !.touched = seen]

\* The loop of build: current_idx runs over (0..size/2).rev(); n is the number
\* of indices still to visit, so the next one is n - 1.
RECURSIVE build_loop(_, _)
build_loop(self, n) ==
    IF n = 0 \/ self.panic
    THEN self
    ELSE build_loop(heapify_top(self, n - 1), n - 1)

\* build over 0..size/2 in ascending order.
RECURSIVE build_forward_loop(_, _)
build_forward_loop(self, k) ==
    IF k >= self.size \div 2 \/ self.panic
    THEN self
    ELSE build_forward_loop(heapify_top(self, k), k + 1)

build_forward(self) == build_forward_loop(self, 0)

\* build over (0..size/2 - 1).rev(): the last internal node is left out.
build_short(self) ==
    IF self.size \div 2 = 0
    THEN Panic(self)
    ELSE build_loop(self, self.size \div 2 - 1)

build(self) == build_loop(self, self.size \div 2)

from_vec(v) ==
    build([data |-> v, size |-> Len(v), panic |-> FALSE, path |-> << >>, touched |-> {}])

new == [data |-> << >>, size |-> 0, panic |-> FALSE, path |-> << >>, touched |-> {}]

\* node_at that takes size for the bound of the index.
node_at_by_size(self, node_idx) ==
    IF node_idx < self.size
    THEN [panic |-> FALSE, val |-> At(self.data, node_idx)]
    ELSE [panic |-> TRUE, val |-> 0]

\* self.data[node_idx].clone(): the index panics out of bounds.
node_at(self, node_idx) ==
    IF InBounds(self.data, node_idx)
    THEN [panic |-> FALSE, val |-> At(self.data, node_idx)]
    ELSE [panic |-> TRUE, val |-> 0]

\* change_size_to that truncates the vector to the new size.
change_size_to_truncating(self, new_size) ==
    IF new_size <= Len(self.data)
    THEN [self EXCEPT !.size = new_size, !.data = SubSeq(self.data, 1, new_size)]
    ELSE Panic(self)

\* change_size_to without its assert.
change_size_to_unchecked(self, new_size) == [self EXCEPT !.size = new_size]

\* change_size_to that sets the size one past the requested one.
change_size_to_one_more(self, new_size) ==
    IF new_size <= Len(self.data)
    THEN [self EXCEPT !.size = new_size + 1]
    ELSE Panic(self)

change_size_to(self, new_size) ==
    IF new_size <= Len(self.data)
    THEN [self EXCEPT !.size = new_size]
    ELSE Panic(self)

\* push that appends (Vec::push) where the code inserts at size.
push_at_end(self, new_node) ==
    LET grown == [self EXCEPT !.data = Append(self.data, new_node),
                              !.size = self.size + 1]
    IN heapify_bottom(grown, grown.size - 1)

\* push that writes the new node over the slot at size when there is one.
push_overwriting(self, new_node) ==
    IF self.size > Len(self.data)
    THEN Panic(self)
    ELSE LET grown == [self EXCEPT !.data = IF self.size < Len(self.data)
                                            THEN [self.data EXCEPT ![self.size + 1] = new_node]
                                            ELSE Append(self.data, new_node),
                                   !.size = self.size + 1]
         IN heapify_bottom(grown, grown.size - 1)

push(self, new_node) ==
    IF self.size > Len(self.data)
    THEN Panic(self)
    ELSE LET grown == [self EXCEPT !.data = insert(self.data, self.size, new_node),
                                   !.size = self.size + 1]
         IN heapify_bottom(grown, grown.size - 1)

\* An iteration of heapsort without the repair of the root.
heapsort_iter_no_repair(self, i) ==
    IF ~InBounds(self.data, i) \/ ~InBounds(self.data, 0) \/ self.size = 0
    THEN Panic(self)
    ELSE [self EXCEPT !.data = swap(self.data, 0, i), !.size = self.size - 1]

\* An iteration of heapsort that swaps with the slot below the last one of the
\* heap.
heapsort_iter_swap_short(self, i) ==
    IF ~InBounds(self.data, i) \/ ~InBounds(self.data, 0) \/ self.size = 0
    THEN Panic(self)
    ELSE heapify_top([self EXCEPT !.data = swap(self.data, 0, i - 1),
                                  !.size = self.size - 1], 0)

\* One iteration of the loop of heapsort, for the loop variable i.
heapsort_iter(self, i) ==
    IF ~InBounds(self.data, i) \/ ~InBounds(self.data, 0) \/ self.size = 0
    THEN Panic(self)
    ELSE heapify_top([self EXCEPT !.data = swap(self.data, 0, i),
                                  !.size = self.size - 1], 0)

-----------------------------------------------------------------------------
(* src/rust/src/search/binary.rs *)

UsizeOk(v) == [panic |-> FALSE, val |-> v]
UsizePanic == [panic |-> TRUE, val |-> 0]

\* a + b and a - b on usize.
usize_add(a, b, release) ==
    IF a + b < 2 ^ UsizeBits
    THEN UsizeOk(a + b)
    ELSE IF release THEN UsizeOk(a + b - 2 ^ UsizeBits) ELSE UsizePanic

usize_sub(a, b, release) ==
    IF a >= b
    THEN UsizeOk(a - b)
    ELSE IF release THEN UsizeOk(a - b + 2 ^ UsizeBits) ELSE UsizePanic

SearchPanic == [panic |-> TRUE, found |-> None]
SearchResult(o) == [panic |-> FALSE, found |-> o]

RECURSIVE binary_search_rec(_, _, _, _, _)
binary_search_rec(xs, low, top, search, release) ==
    IF top < low
    THEN SearchResult(None)
    ELSE LET sum == usize_add(top, low, release)
             mid == sum.val \div 2
             up == usize_add(mid, 1, release)
             down == usize_sub(mid, 1, release)
         IN IF sum.panic \/ ~InBounds(xs, mid)
            THEN SearchPanic
            ELSE IF At(xs, mid) = search
                 THEN SearchResult(Some(mid))
                 ELSE IF At(xs, mid) < search
                      THEN IF up.panic
                           THEN SearchPanic
                           ELSE binary_search_rec(xs, up.val, top, search, release)
                      ELSE IF down.panic
                           THEN SearchPanic
                           ELSE binary_search_rec(xs, low, down.val, search, release)

binary_search(xs, search, release) ==
    LET top == usize_sub(Len(xs), 1, release)
    IN IF top.panic
       THEN SearchPanic
       ELSE binary_search_rec(xs, 0, top.val, search, release)

-----------------------------------------------------------------------------
\* ---- src/rust/src/ds/double.rs ----

NodeIds == 1..MaxNodes

DoubleNode_new(key) == [key |-> key, next |-> None, prev |-> None]

DoubleLinked_new == [head |-> None, tail |-> None, nodes |-> << >>, panic |-> FALSE]

\* Rc::new: the node gets an address no live node has.
Fresh(self) == CHOOSE n \in NodeIds \ DOMAIN self.nodes :
                   \A m \in NodeIds \ DOMAIN self.nodes : n <= m

\* Rc::strong_count of node n, without the pointer a local variable holds.
strong_count(self, n) ==
    Cardinality({f \in {"head", "tail"} : self[f] = Some(n)})
      + Cardinality({m \in DOMAIN self.nodes : self.nodes[m].next = Some(n)})
      + Cardinality({m \in DOMAIN self.nodes : self.nodes[m].prev = Some(n)})

Alloc(self, n, node) ==
    [self EXCEPT !.nodes = [m \in DOMAIN self.nodes \cup {n} |->
                               IF m = n THEN node ELSE self.nodes[m]]]

\* Rc::try_unwrap(node).ok().unwrap().into_inner().key: the node is moved out
\* when the local pointer is the only one, and unwrap panics otherwise.
try_unwrap(self, n) ==
    IF strong_count(self, n) # 0
    THEN [list |-> [self EXCEPT !.panic = TRUE], ret |-> None]
    ELSE [list |-> [self EXCEPT !.nodes = [m \in DOMAIN self.nodes \ {n} |-> self.nodes[m]]],
          ret |-> Some(self.nodes[n].key)]

push_front(self, key) ==
    LET n == Fresh(self)
        new_head == DoubleNode_new(key)
    IN IF self.head # None
       THEN LET last_head == self.head[1]
                linked == [Alloc(self, n, [new_head EXCEPT !.next = Some(last_head)])
                              EXCEPT !.nodes[last_head].prev = Some(n)]
            IN [linked EXCEPT !.head = Some(n)]
       ELSE [Alloc(self, n, new_head) EXCEPT !.head = Some(n), !.tail = Some(n)]

\* pop_front that leaves tail alone when it removes the only node.
pop_front_keeps_tail(self) ==
    IF self.head = None
    THEN [list |-> self, ret |-> None]
    ELSE LET last_head == self.head[1]
             nxt == self.nodes[last_head].next
             taken == [self EXCEPT !.head = None, !.nodes[last_head].next = None]
         IN IF nxt # None
            THEN IF nxt[1] = last_head
                 THEN [list |-> [taken EXCEPT !.panic = TRUE], ret |-> None]
                 ELSE try_unwrap([taken EXCEPT !.nodes[nxt[1]].prev = None, !.head = nxt],
                                 last_head)
            ELSE try_unwrap(taken, last_head)

\* A second borrow_mut of the node the match still borrows panics.
pop_front(self) ==
    IF self.head = None
    THEN [list |-> self, ret |-> None]
    ELSE LET last_head == self.head[1]
             nxt == self.nodes[last_head].next
             taken == [self EXCEPT !.head = None, !.nodes[last_head].next = None]
         IN IF nxt # None
            THEN IF nxt[1] = last_head
                 THEN [list |-> [taken EXCEPT !.panic = TRUE], ret |-> None]
                 ELSE try_unwrap([taken EXCEPT !.nodes[nxt[1]].prev = None, !.head = nxt],
                                 last_head)
            ELSE try_unwrap([taken EXCEPT !.tail = None], last_head)

push_back(self, key) ==
    LET n == Fresh(self)
        new_tail == DoubleNode_new(key)
    IN IF self.tail # None
       THEN LET last_tail == self.tail[1]
                linked == [Alloc(self, n, [new_tail EXCEPT !.prev = Some(last_tail)])
                              EXCEPT !.nodes[last_tail].next = Some(n)]
            IN [linked EXCEPT !.tail = Some(n)]
       ELSE [Alloc(self, n, new_tail) EXCEPT !.head = Some(n), !.tail = Some(n)]

pop_back(self) ==
    IF self.tail = None
    THEN [list |-> self, ret |-> None]
    ELSE LET last_tail == self.tail[1]
             prv == self.nodes[last_tail].prev
             taken == [self EXCEPT !.tail = None, !.nodes[last_tail].prev = None]
         IN IF prv # None
            THEN IF prv[1] = last_tail
                 THEN [list |-> [taken EXCEPT !.panic = TRUE], ret |-> None]
                 ELSE try_unwrap([taken EXCEPT !.nodes[prv[1]].next = None, !.tail = prv],
                                 last_tail)
            ELSE try_unwrap([taken EXCEPT !.head = None], last_tail)

is_empty(self) == self.head = None

Self == [data |-> data, size |-> size, panic |-> FALSE, path |-> << >>, touched |-> {}]

NoArg == 0 - 1

Op(op, arg, tag, val) ==
    [op |-> op, arg |-> arg, tag |-> tag, val |-> val, data0 |-> data, size0 |-> size,
     path |-> << >>, touched |-> {}]

OptTag(o) == IF o = None THEN "None" ELSE "Some"
OptVal(o) == IF o = None THEN 0 ELSE o[1]

\* The state after a mutating operation returned h, or after it panicked.
Returns(h, op, arg) ==
    /\ data' = h.data
    /\ size' = h.size
    /\ pc' = IF h.panic THEN "panicked" ELSE pc
    /\ last' = [Op(op, arg, IF h.panic THEN "Panic" ELSE "Unit", 0)
                   EXCEPT !.path = h.path, !.touched = h.touched]
    /\ UNCHANGED <<idx, input, list, deque>>

\* The state after a read-only operation returned the Option o.
Answers(o, op, arg) ==
    /\ last' = Op(op, arg, OptTag(o), OptVal(o))
    /\ UNCHANGED <<data, size, pc, idx, input, list, deque>>

Constructed(h, v, op) ==
    /\ data = h.data
    /\ size = h.size
    /\ last = [op |-> op, arg |-> NoArg, tag |-> IF h.panic THEN "Panic" ELSE "Unit",
               val |-> 0, data0 |-> v, size0 |-> 0, path |-> << >>, touched |-> {}]
    /\ list = DoubleLinked_new
    /\ deque = << >>

InitNew ==
    /\ Constructed(new, << >>, "new")
    /\ input = << >>
    /\ pc = "heap"
    /\ idx = 0

InitFromVec ==
    \E v \in Inputs :
        /\ Constructed(from_vec(v), v, "from_vec")
        /\ input = << >>
        /\ pc = IF from_vec(v).panic THEN "panicked" ELSE "heap"
        /\ idx = 0

\* heapsort after its first statement, let mut h = MaxHeap::from_vec(data).
InitHeapsort ==
    \E v \in Inputs :
        /\ Constructed(from_vec(v), v, "heapsort")
        /\ input = v
        /\ pc = IF from_vec(v).panic THEN "panicked" ELSE "sort"
        /\ idx = Len(v) - 1

Init == InitNew \/ InitFromVec \/ InitHeapsort

\* A heap built from vec![0; n]: navigation reads size alone.
InitNav ==
    \E v \in NavInputs :
        /\ Constructed(from_vec(v), v, "from_vec")
        /\ input = << >>
        /\ pc = IF from_vec(v).panic THEN "panicked" ELSE "heap"
        /\ idx = 0

\* The test build_heap_from_vec after MaxHeap::from_vec(vec![9, 3, ...]).
InitTestFromVec ==
    /\ Constructed(from_vec(TestVec), TestVec, "from_vec")
    /\ input = << >>
    /\ pc = IF from_vec(TestVec).panic THEN "panicked" ELSE "heap"
    /\ idx = 0

\* The test build_heap_via_push after MaxHeap::new(), the vector still to push.
InitTestViaPush ==
    /\ Constructed(new, << >>, "new")
    /\ input = TestVec
    /\ pc = "heap"
    /\ idx = 0

InitTest == InitTestFromVec \/ InitTestViaPush

\* The slices sorted in non-decreasing order, the empty one included.
SortedInputs == {v \in Inputs : \A k \in 1..(Len(v) - 1) : v[k] <= v[k + 1]}

\* A caller of binary_search holding the sorted slice data.
InitSearch ==
    \E xs \in SortedInputs :
        /\ data = xs
        /\ size = Len(xs)
        /\ input = << >>
        /\ pc = "search"
        /\ idx = 0
        /\ last = [op |-> "slice", arg |-> NoArg, tag |-> "Unit", val |-> 0,
                   data0 |-> xs, size0 |-> Len(xs), path |-> << >>, touched |-> {}]
        /\ list = DoubleLinked_new
        /\ deque = << >>

Indices == 0..(Len(data) + 1)

Push ==
    /\ pc = "heap"
    /\ Len(data) < MaxLen
    /\ \E x \in Values : Returns(push(Self, x), "push", x)

ChangeSizeTo ==
    /\ pc = "heap"
    /\ \E n \in Indices :
        LET h == change_size_to(Self, n)
        IN /\ data' = h.data
           /\ size' = h.size
           /\ pc' = IF h.panic THEN "panicked" ELSE pc
           /\ last' = Op("change_size_to", n, IF h.panic THEN "Panic" ELSE "Ok", 0)
           /\ UNCHANGED <<idx, input, list, deque>>

HeapifyTop ==
    /\ pc = "heap"
    /\ \E i \in Indices : Returns(heapify_top(Self, i), "heapify_top", i)

HeapifyBottom ==
    /\ pc = "heap"
    /\ \E i \in Indices : Returns(heapify_bottom(Self, i), "heapify_bottom", i)

Parent ==
    /\ pc = "heap"
    /\ \E i \in Indices : Answers(parent(Self, i), "parent", i)

Left ==
    /\ pc = "heap"
    /\ \E i \in Indices : Answers(left(Self, i), "left", i)

Right ==
    /\ pc = "heap"
    /\ \E i \in Indices : Answers(right(Self, i), "right", i)

Height ==
    /\ pc = "heap"
    /\ Answers(Some(height(Self)), "height", NoArg)

NodeHeight ==
    /\ pc = "heap"
    /\ \E i \in Indices : Answers(node_height(Self, i), "node_height", i)

\* One step of .for_each(|&x| heap.push(x)) over the vector of the test.
PushNext ==
    /\ pc = "heap"
    /\ input # << >>
    /\ LET h == push(Self, Head(input))
       IN /\ data' = h.data
          /\ size' = h.size
          /\ pc' = IF h.panic THEN "panicked" ELSE pc
          /\ last' = Op("push", Head(input), IF h.panic THEN "Panic" ELSE "Unit", 0)
    /\ input' = Tail(input)
    /\ UNCHANGED <<idx, list, deque>>

BinarySearch ==
    /\ pc = "search"
    /\ \E s \in Values, release \in BOOLEAN :
        LET r == binary_search(data, s, release)
        IN /\ last' = Op("binary_search", s,
                         IF r.panic THEN "Panic" ELSE OptTag(r.found), OptVal(r.found))
           /\ pc' = IF r.panic THEN "panicked" ELSE pc
           /\ UNCHANGED <<data, size, idx, input, list, deque>>

NodeAt ==
    /\ pc = "heap"
    /\ \E i \in Indices :
        LET r == node_at(Self, i)
        IN /\ last' = Op("node_at", i, IF r.panic THEN "Panic" ELSE "Val", r.val)
           /\ pc' = IF r.panic THEN "panicked" ELSE pc
           /\ UNCHANGED <<data, size, idx, input, list, deque>>

\* for idx in (1..h.length()).rev() { ... }
HeapsortIter ==
    /\ pc = "sort"
    /\ idx >= 1
    /\ LET h == heapsort_iter(Self, idx)
       IN /\ data' = h.data
          /\ size' = h.size
          /\ pc' = IF h.panic THEN "panicked" ELSE pc
          /\ last' = Op("heapsort_iter", idx, IF h.panic THEN "Panic" ELSE "Unit", 0)
    /\ idx' = idx - 1
    /\ UNCHANGED <<input, list, deque>>

\* The loop is over: heapsort returns h.data.
HeapsortReturn ==
    /\ pc = "sort"
    /\ idx < 1
    /\ pc' = "done"
    /\ last' = Op("heapsort_return", NoArg, "Unit", 0)
    /\ UNCHANGED <<data, size, idx, input, list, deque>>

-----------------------------------------------------------------------------
(* The properties. *)

\* I1, the bounds invariant, and I2, the heap property over the prefix [0, s).
\* ---- A caller of DoubleLinked ----

InitList ==
    /\ list = DoubleLinked_new
    /\ deque = << >>
    /\ data = << >>
    /\ size = 0
    /\ input = << >>
    /\ pc = "list"
    /\ idx = 0
    /\ last = [op |-> "new", arg |-> NoArg, tag |-> "Unit", val |-> 0,
               data0 |-> << >>, size0 |-> 0, path |-> << >>, touched |-> {}]

\* The record of a call on the list: data0 is the deque the call started from.
ListOp(op, arg, tag, val) == [Op(op, arg, tag, val) EXCEPT !.data0 = deque]

\* The state after a push returned l.
Pushed(l, op, key) ==
    /\ list' = l
    /\ pc' = IF l.panic THEN "panicked" ELSE pc
    /\ last' = ListOp(op, key, IF l.panic THEN "Panic" ELSE "Unit", 0)
    /\ UNCHANGED <<data, size, idx, input>>

\* The state after a pop returned r.ret, or after it panicked.
Popped(r, op) ==
    /\ list' = r.list
    /\ pc' = IF r.list.panic THEN "panicked" ELSE pc
    /\ last' = ListOp(op, NoArg, IF r.list.panic THEN "Panic" ELSE OptTag(r.ret),
                      OptVal(r.ret))
    /\ UNCHANGED <<data, size, idx, input>>

PushFront ==
    /\ pc = "list"
    /\ Cardinality(DOMAIN list.nodes) < MaxNodes
    /\ \E key \in Values :
           /\ Pushed(push_front(list, key), "push_front", key)
           /\ deque' = <<key>> \o deque

PushBack ==
    /\ pc = "list"
    /\ Cardinality(DOMAIN list.nodes) < MaxNodes
    /\ \E key \in Values :
           /\ Pushed(push_back(list, key), "push_back", key)
           /\ deque' = Append(deque, key)

PopFront ==
    /\ pc = "list"
    /\ Popped(pop_front(list), "pop_front")
    /\ deque' = IF deque = << >> THEN deque ELSE Tail(deque)

PopBack ==
    /\ pc = "list"
    /\ Popped(pop_back(list), "pop_back")
    /\ deque' = IF deque = << >> THEN deque ELSE SubSeq(deque, 1, Len(deque) - 1)

IsEmpty ==
    /\ pc = "list"
    /\ last' = ListOp("is_empty", NoArg, IF is_empty(list) THEN "true" ELSE "false", 0)
    /\ UNCHANGED <<data, size, pc, idx, input, list, deque>>

I1(d, s) == s <= Len(d)
I2(d, s) == \A i \in 1..(s - 1) : i < Len(d) => At(d, (i - 1) \div 2) >= At(d, i)

Prefix(d, s) == SubSeq(d, 1, s)
Count(d, v) == Cardinality({k \in 1..Len(d) : d[k] = v})
Elems(d) == {d[k] : k \in 1..Len(d)}
\* The two sequences hold the same multiset.
SameBag(a, b) ==
    /\ Len(a) = Len(b)
    /\ \A v \in Elems(a) \cup Elems(b) : Count(a, v) = Count(b, v)
IsSorted(d) == \A k \in 1..(Len(d) - 1) : d[k] <= d[k + 1]

MaxOf(S) == CHOOSE m \in S : \A n \in S : n <= m

\* The height of node i as the trait defines it: the number of edges on the
\* longest simple downward path from i to a leaf, in a heap of s nodes.
RECURSIVE LongestPath(_, _)
LongestPath(s, i) ==
    LET children == {c \in {2 * i + 1, 2 * i + 2} : c < s}
    IN IF children = {}
       THEN 0
       ELSE 1 + MaxOf({LongestPath(s, c) : c \in children})

\* C1: after every public operation (push, change_size_to within the length,
\* heapify_top, heapify_bottom) on a heap made by new or from_vec, the heap
\* property I2 holds over [0, size).
C1_HeapPropertyAlways == pc = "heap" => I2(data, size)

\* C2: size <= length in every state of a caller's heap and at every step
\* inside heapsort.
C2_SizeWithinLength == I1(data, size)

\* push on a full heap, and an iteration of heapsort that shrank the heap.
C2_Witness ==
    \/ last.op = "push" /\ last.size0 = Len(last.data0) /\ size = Len(data)
    \/ last.op = "heapsort_iter" /\ size < Len(data)

\* C3: heapsort never panics, and what it returns is sorted in non-decreasing
\* order and holds the multiset of its input; a sorted input comes back
\* unchanged.
C3_HeapsortSorts ==
    /\ last.op \in {"heapsort", "heapsort_iter", "heapsort_return"} => pc # "panicked"
    /\ pc = "done" =>
        /\ IsSorted(data)
        /\ SameBag(data, input)
        /\ IsSorted(input) => data = input

\* heapsort returned for an unsorted input with a duplicate.
C3_Witness ==
    /\ pc = "done"
    /\ Len(input) >= 3
    /\ ~IsSorted(input)
    /\ \E j, k \in 1..Len(input) : j < k /\ input[j] = input[k]

\* C4: change_size_to(n) with n > length returns an Err to its caller, and
\* leaves size and the storage as they were.
C4_InvalidSizeReturned ==
    (last.op = "change_size_to" /\ last.arg > Len(last.data0)) =>
        /\ last.tag = "Err"
        /\ data = last.data0
        /\ size = last.size0

\* C5: push(x) on a heap with I1 and I2 returns with size one larger, I2 over
\* the new prefix, and the old members plus x as the members.
C5_PushKeepsHeap ==
    (last.op = "push" /\ I1(last.data0, last.size0) /\ I2(last.data0, last.size0)) =>
        /\ pc # "panicked"
        /\ size = last.size0 + 1
        /\ I1(data, size)
        /\ I2(data, size)
        /\ SameBag(Prefix(data, size), Append(Prefix(last.data0, last.size0), last.arg))

\* push below the length, where the new element had to move up.
C5_Witness ==
    /\ last.op = "push"
    /\ last.size0 >= 1
    /\ last.size0 < Len(last.data0)
    /\ I2(last.data0, last.size0)
    /\ data # insert(last.data0, last.size0, last.arg)

\* C6: from_vec(data) does not panic and returns a heap with size = length =
\* data.len(), whose storage is a permutation of data with I2.
C6_FromVecBuildsHeap ==
    last.op = "from_vec" =>
        /\ pc = "heap"
        /\ size = Len(data)
        /\ size = Len(last.data0)
        /\ SameBag(data, last.data0)
        /\ I2(data, size)

\* from_vec had to move elements of a vector of three or more.
C6_Witness ==
    /\ last.op = "from_vec"
    /\ Len(data) >= 3
    /\ data # last.data0

\* from_vec of the empty vector.
C6_WitnessEmpty == last.op = "from_vec" /\ last.data0 = << >> /\ size = 0

Answer == IF last.tag = "Some" THEN Some(last.val) ELSE None

C8_Height ==
    last.op = "height" =>
        /\ size = 0 => last.val = 0
        /\ size > 0 =>
            /\ 2 ^ last.val <= size
            /\ size < 2 ^ (last.val + 1)
            /\ last.val = LongestPath(size, 0)
            /\ Some(last.val) = node_height(Self, 0)

\* height() of a heap whose last level is partly filled.
C8_Witness == last.op = "height" /\ size = 6 /\ size < Len(data)

\* C9: node_height(i) is None for every i >= size and Some(h) for every
\* i < size.
C9_NodeHeightNoneOutside ==
    last.op = "node_height" => (last.tag = "None" <=> last.arg >= size)

\* C10: for i < size, node_height(i) is Some(h) with h the number of edges on
\* the longest downward path from i to a leaf within [0, size).
C10_NodeHeightIsHeight ==
    (last.op = "node_height" /\ last.arg < size) =>
        /\ last.tag = "Some"
        /\ last.val = LongestPath(size, last.arg)

\* node_height of a node whose subtree has a partly filled last level: in a
\* heap of 10 nodes, node 1 has the descendants 3, 4, 7, 8, 9.
C10_Witness == last.op = "node_height" /\ last.arg = 1 /\ size = 10 /\ last.val = 2

\* C11: node_at(i) panics out of bounds exactly when i >= length; for i < length,
\* residual indices included, it returns storage[i]; size and storage stay.
C11_NodeAt ==
    last.op = "node_at" =>
        /\ last.tag = "Panic" <=> last.arg >= Len(last.data0)
        /\ last.arg < Len(last.data0) =>
            last.tag = "Val" /\ last.val = At(last.data0, last.arg)
        /\ data = last.data0
        /\ size = last.size0

\* node_at of a residual index returned the value stored there.
C11_Witness ==
    /\ last.op = "node_at"
    /\ last.arg >= size
    /\ last.arg < Len(data)
    /\ last.tag = "Val"
    /\ last.val = At(data, last.arg)
    /\ size >= 1
    /\ last.val # At(data, 0)

\* C12: change_size_to(n) with n <= length returns Ok, sets size to n and
\* leaves every slot of the storage and the length as they were.
C12_ChangeSizeFrame ==
    (last.op = "change_size_to" /\ last.arg <= Len(last.data0)) =>
        /\ last.tag = "Ok"
        /\ pc = "heap"
        /\ size = last.arg
        /\ data = last.data0

\* change_size_to shrank a heap of several elements below its length.
C12_Witness ==
    /\ last.op = "change_size_to"
    /\ last.tag = "Ok"
    /\ last.arg < last.size0
    /\ last.arg >= 1
    /\ size < Len(data)

\* C13: in a heap made by new or from_vec and pushes alone, with size >= 1,
\* the root holds the biggest value: storage[0] >= storage[i] for i < size.
C13_RootIsMax ==
    (pc = "heap" /\ size >= 1) => \A i \in 0..(size - 1) : At(data, 0) >= At(data, i)

\* push moved a new maximum from the third level up to the root.
C13_Witness ==
    /\ last.op = "push"
    /\ size >= 4
    /\ At(data, 0) = last.arg
    /\ \A i \in 0..(last.size0 - 1) : At(last.data0, i) < last.arg

\* C14: from_vec([9,3,1,2,4,16,10,7,8,14]) returns a heap whose storage is
\* exactly [16,14,10,8,4,1,9,7,2,3].
C14_BuildFromVecLayout ==
    (last.op = "from_vec" /\ last.data0 = TestVec) =>
        /\ pc = "heap"
        /\ data = <<16, 14, 10, 8, 4, 1, 9, 7, 2, 3>>

\* from_vec returned for the vector of the test.
C14_Witness ==
    /\ last.op = "from_vec"
    /\ last.data0 = <<9, 3, 1, 2, 4, 16, 10, 7, 8, 14>>
    /\ size = 10
    /\ At(data, 0) = 16

\* C15: pushing 9,3,1,2,4,16,10,7,8,14 in that order onto new() leaves the
\* storage [16,14,10,7,8,1,9,2,4,3], which is not the layout from_vec gives
\* the same input; both have I2.
C15_BuildViaPushLayout ==
    (last.op = "push" /\ input = << >> /\ Len(data) = Len(TestVec)) =>
        /\ pc = "heap"
        /\ size = 10
        /\ data = <<16, 14, 10, 7, 8, 1, 9, 2, 4, 3>>
        /\ data # from_vec(TestVec).data
        /\ I2(data, size)
        /\ I2(from_vec(TestVec).data, from_vec(TestVec).size)

\* The tenth push of the test returned.
C15_Witness ==
    /\ last.op = "push"
    /\ last.arg = 14
    /\ input = << >>
    /\ size = 10
    /\ Len(last.data0) = 9

\* C16: for a slice sorted in non-decreasing order (the empty slice included)
\* and a search value s, binary_search returns Some(idx) with xs[idx] = s when
\* s occurs in xs and None when it does not; it never panics.
C16_BinarySearchTotal ==
    last.op = "binary_search" =>
        IF \E k \in 1..Len(data) : data[k] = last.arg
        THEN last.tag = "Some" /\ InBounds(data, last.val) /\ At(data, last.val) = last.arg
        ELSE last.tag = "None"

\* The indices below s in the subtree rooted at i.
RECURSIVE Subtree(_, _)
Subtree(s, i) ==
    IF i >= s THEN {} ELSE {i} \cup Subtree(s, 2 * i + 1) \cup Subtree(s, 2 * i + 2)

\* I2 on every edge inside the subtree rooted at i.
SubtreeI2(d, s, i) ==
    \A j \in Subtree(s, i) \ {i} : At(d, (j - 1) \div 2) >= At(d, j)

\* The two vectors hold the same multiset over the index set S.
SameBagOver(a, b, S) ==
    \A v \in {At(a, j) : j \in S} \cup {At(b, j) : j \in S} :
        Cardinality({j \in S : At(a, j) = v}) = Cardinality({j \in S : At(b, j) = v})

\* C17: when the subtrees rooted at left(i) and right(i) satisfy I2, after
\* heapify_top(i) the subtree rooted at i satisfies I2 and holds the same
\* multiset; when both children exceed the node, the larger child (the left
\* one on a tie) is the one swapped up, so the other child's subtree stays.
C17_SiftDown ==
    LET i == last.arg
        l == 2 * last.arg + 1
        r == 2 * last.arg + 2
        d0 == last.data0
        s0 == last.size0
    IN (/\ last.op = "heapify_top"
        /\ i < s0
        /\ I1(d0, s0)
        /\ SubtreeI2(d0, s0, l)
        /\ SubtreeI2(d0, s0, r)) =>
            /\ pc # "panicked"
            /\ size = s0
            /\ Len(data) = Len(d0)
            /\ SubtreeI2(data, size, i)
            /\ SameBagOver(data, d0, Subtree(s0, i))
            /\ (r < s0 /\ At(d0, l) > At(d0, i) /\ At(d0, r) > At(d0, i)) =>
                IF At(d0, l) >= At(d0, r)
                THEN /\ At(data, i) = At(d0, l)
                     /\ \A j \in Subtree(s0, r) : At(data, j) = At(d0, j)
                ELSE /\ At(data, i) = At(d0, r)
                     /\ \A j \in Subtree(s0, l) : At(data, j) = At(d0, j)

\* heapify_top at a node below both of its children, which are equal: the
\* left one came up and the sift went on below it.
C17_Witness ==
    /\ last.op = "heapify_top"
    /\ last.arg = 0
    /\ last.size0 >= 4
    /\ SubtreeI2(last.data0, last.size0, 1)
    /\ At(last.data0, 1) = At(last.data0, 2)
    /\ At(last.data0, 1) > At(last.data0, 0)
    /\ At(last.data0, 3) > At(last.data0, 0)
    /\ At(data, 3) = At(last.data0, 0)

\* I2 on every edge of [0, s) other than the edge from i to its parent.
EdgesExcept(d, s, i) ==
    \A j \in 1..(s - 1) : j # i => At(d, (j - 1) \div 2) >= At(d, j)

\* No child of i within [0, s) is above the parent of i.
ChildrenBelowParent(d, s, i) ==
    \A c \in {2 * i + 1, 2 * i + 2} :
        (i # 0 /\ c < s) => At(d, (i - 1) \div 2) >= At(d, c)

\* C18 as stated: for any i < size, a leaf or not, when I2 holds on every edge
\* of [0, size) except possibly (parent(i), i), after heapify_bottom(i) I2 holds
\* on every edge of [0, size).
C18_SiftUpAnyIndex ==
    (/\ last.op = "heapify_bottom"
     /\ last.arg < last.size0
     /\ I1(last.data0, last.size0)
     /\ EdgesExcept(last.data0, last.size0, last.arg)) =>
        I2(data, size)

\* C18 as amended: the same, when moreover no child of i is above the parent
\* of i (nothing to ask of a leaf).
C18_SiftUp ==
    (/\ last.op = "heapify_bottom"
     /\ last.arg < last.size0
     /\ I1(last.data0, last.size0)
     /\ EdgesExcept(last.data0, last.size0, last.arg)
     /\ ChildrenBelowParent(last.data0, last.size0, last.arg)) =>
        /\ pc # "panicked"
        /\ size = last.size0
        /\ I2(data, size)

\* heapify_bottom moved a node that has a child above its parent.
C18_Witness ==
    /\ last.op = "heapify_bottom"
    /\ last.arg >= 1
    /\ 2 * last.arg + 1 < last.size0
    /\ EdgesExcept(last.data0, last.size0, last.arg)
    /\ ChildrenBelowParent(last.data0, last.size0, last.arg)
    /\ At(last.data0, (last.arg - 1) \div 2) < At(last.data0, last.arg)
    /\ data # last.data0

\* The number of iterations of the loop of heapsort that are over: the loop
\* variable runs from n - 1 down to 1.
Iterations == IF Len(input) = 0 THEN 0 ELSE Len(input) - 1 - idx

\* C19: after the k-th iteration of heapsort on an input of length n,
\* size = n - k, the prefix [0, size) has I2, the suffix [size, n) holds the k
\* largest elements of the input in non-decreasing order, and every element
\* of the prefix is <= every element of the suffix.
C19_HeapsortLoopInvariant ==
    pc = "sort" =>
        /\ Iterations >= 0
        /\ Iterations <= Len(input)
        /\ Len(data) = Len(input)
        /\ size = Len(input) - Iterations
        /\ I2(data, size)
        /\ SameBag(data, input)
        /\ IsSorted(SubSeq(data, size + 1, Len(data)))
        /\ \A a \in 1..size : \A b \in (size + 1)..Len(data) : data[a] <= data[b]

\* Two iterations are over, two elements are left in the heap, and the two
\* extracted are not equal.
C19_Witness ==
    /\ pc = "sort"
    /\ last.op = "heapsort_iter"
    /\ Iterations = 2
    /\ size = 2
    /\ data[3] < data[4]
    /\ data[2] < data[1]

\* C20: each iteration of heapsort swaps storage[0] with storage[size-1],
\* takes one from size and repairs the heap from index 0; for n >= 1 there are
\* exactly n - 1 iterations and size is 1 when the loop ends; for n = 0 there
\* is none.
C20_HeapsortIterations ==
    /\ pc = "sort" => size = idx + 1
    /\ last.op = "heapsort_iter" =>
        /\ Len(input) >= 2
        /\ last.arg = last.size0 - 1
        /\ size = last.size0 - 1
        /\ At(data, last.arg) = At(last.data0, 0)
        /\ \A j \in (last.arg + 1)..(Len(data) - 1) : At(data, j) = At(last.data0, j)
        /\ SameBag(Prefix(data, size),
                   Prefix(swap(last.data0, 0, last.arg), size))
        /\ I2(data, size)
    /\ pc = "done" =>
        /\ Iterations = IF Len(input) = 0 THEN 0 ELSE Len(input) - 1
        /\ size = IF Len(input) = 0 THEN 0 ELSE 1
        /\ Len(input) <= 1 => last.data0 = data /\ data = input

\* heapsort returned after three iterations or more.
C20_Witness ==
    /\ pc = "done"
    /\ Len(input) >= 4
    /\ Iterations = Len(input) - 1
    /\ size = 1
    /\ data # input

\* heapsort of the empty vector returned.
C20_WitnessEmpty == pc = "done" /\ input = << >> /\ size = 0

\* C21: both repairs terminate on every state and index. heapify_top(i) makes
\* at most height() swaps and its current index strictly increases at each of
\* them, heapify_bottom(i) makes at most height() swaps and its current index
\* strictly decreases, and at an index i >= size, inside data or past its end,
\* both return without a panic, without a swap and with data as it was.
Ascends(i, p) == \A k \in 1..Len(p) : (IF k = 1 THEN i ELSE p[k - 1]) < p[k]

Descends(i, p) == \A k \in 1..Len(p) : (IF k = 1 THEN i ELSE p[k - 1]) > p[k]

HeightBefore == height([size |-> last.size0])

C21_WitnessBottom ==
    /\ last.op = "heapify_bottom"
    /\ HeightBefore = 2
    /\ Len(last.path) = 2
    /\ data[1] = last.data0[last.arg + 1]

\* Both repairs returned at an index past the end of data.
C21_WitnessOutside ==
    /\ last.op \in {"heapify_top", "heapify_bottom"}
    /\ last.arg >= Len(last.data0)
    /\ last.size0 < Len(last.data0)
    /\ last.tag = "Unit"

\* C22: push(x) on a state with size <= length raises size by one and the
\* length by one, and the slots that were at [size, length) before the call
\* are at [size + 1, length + 1) after it, in the same order: none of them is
\* overwritten and none becomes a member of the heap.
C22_PushShiftsResidue ==
    (last.op = "push" /\ I1(last.data0, last.size0)) =>
        /\ pc = "heap"
        /\ size = last.size0 + 1
        /\ Len(data) = Len(last.data0) + 1
        /\ Len(data) - size = Len(last.data0) - last.size0
        /\ SubSeq(data, size + 1, Len(data))
              = SubSeq(last.data0, last.size0 + 1, Len(last.data0))

\* A push over two residual slots of different values, sifted up to the root.
C22_Witness ==
    /\ last.op = "push"
    /\ Len(last.data0) - last.size0 >= 2
    /\ last.data0[last.size0 + 1] # last.data0[last.size0 + 2]
    /\ last.size0 >= 1
    /\ last.path # << >>

\* C23: shrinking keeps the heap. From a state whose members satisfy the heap
\* property, change_size_to(n) with n <= size leaves the heap property true
\* over [0, n) with no repair; a call that leaves it false had size < n.
C23_ShrinkKeepsHeap ==
    (last.op = "change_size_to" /\ I2(last.data0, last.size0)) =>
        /\ last.arg <= last.size0 => (pc = "heap" /\ I2(data, size))
        /\ ~I2(data, size) => (last.size0 < last.arg /\ last.arg <= Len(last.data0))

\* A heap of three or more members was cut to two or more of them.
C23_Witness ==
    /\ last.op = "change_size_to"
    /\ I2(last.data0, last.size0)
    /\ last.size0 >= 3
    /\ last.arg < last.size0
    /\ last.arg >= 2
    /\ last.tag = "Ok"

\* Growing the size of a valid heap exposed a violation.
C23_WitnessGrow ==
    /\ last.op = "change_size_to"
    /\ I2(last.data0, last.size0)
    /\ last.size0 < last.arg
    /\ last.tag = "Ok"
    /\ ~I2(data, size)

\* C24: the frame of the repairs. heapify_top(i) and heapify_bottom(i) read and
\* write no slot at an index >= size and change neither size nor the length;
\* heapify_top(i) permutes values among the indices of the subtree rooted at i,
\* heapify_bottom(i) among the indices on the path from i to the root, and
\* every other slot, each residual slot in [size, length) included, is as it was.
RECURSIVE PathToRoot(_, _)
PathToRoot(s, i) ==
    IF i >= s THEN {} ELSE IF i = 0 THEN {0} ELSE {i} \cup PathToRoot(s, (i - 1) \div 2)

RepairFrame(S) ==
    /\ pc = "heap"
    /\ size = last.size0
    /\ Len(data) = Len(last.data0)
    /\ last.touched \subseteq S
    /\ \A j \in last.touched : j < last.size0
    /\ \A j \in 0..(Len(data) - 1) : j \notin S => At(data, j) = At(last.data0, j)
    /\ SameBagOver(data, last.data0, S)

C24_WitnessResidue ==
    /\ last.op = "heapify_top"
    /\ last.path # << >>
    /\ last.size0 < Len(last.data0)

\* heapify_bottom swapped on the path of the last member next to a residual slot.
C24_WitnessBottom ==
    /\ last.op = "heapify_bottom"
    /\ last.path # << >>
    /\ last.size0 >= 3
    /\ last.size0 < Len(last.data0)

\* C25: DoubleLinked is a double-ended queue under every interleaving of
\* push_front, push_back, pop_front and pop_back. The keys read from head along
\* next are the reference sequence and the keys read from tail along prev are
\* its reverse; push_front prepends and push_back appends; a pop returns the
\* first or the last key of the sequence it started from, or None from the
\* empty one, which it leaves empty; no call panics; and head is None exactly
\* when tail is None, exactly when is_empty() is true.
RECURSIVE Walk(_, _, _, _)
Walk(self, p, field, fuel) ==
    IF p = None \/ fuel = 0 \/ p[1] \notin DOMAIN self.nodes
    THEN << >>
    ELSE <<self.nodes[p[1]].key>> \o Walk(self, self.nodes[p[1]][field], field, fuel - 1)

Forward(self) == Walk(self, self.head, "next", MaxNodes + 1)

Backward(self) == Walk(self, self.tail, "prev", MaxNodes + 1)

Reverse(q) == [k \in 1..Len(q) |-> q[Len(q) + 1 - k]]

C25_DequeRefinement ==
    /\ pc = "list"
    /\ Forward(list) = deque
    /\ Backward(list) = Reverse(deque)
    /\ Cardinality(DOMAIN list.nodes) = Len(deque)
    /\ (list.head = None) = (list.tail = None)
    /\ (list.tail = None) = is_empty(list)
    /\ is_empty(list) = (deque = << >>)
    /\ last.op = "push_front" => deque = <<last.arg>> \o last.data0
    /\ last.op = "push_back" => deque = Append(last.data0, last.arg)
    /\ (last.op \in {"pop_front", "pop_back"} /\ last.data0 = << >>) =>
           (last.tag = "None" /\ deque = << >>)
    /\ (last.op = "pop_front" /\ last.data0 # << >>) =>
           /\ last.tag = "Some"
           /\ last.val = Head(last.data0)
           /\ deque = Tail(last.data0)
    /\ (last.op = "pop_back" /\ last.data0 # << >>) =>
           /\ last.tag = "Some"
           /\ last.val = last.data0[Len(last.data0)]
           /\ deque = SubSeq(last.data0, 1, Len(last.data0) - 1)
    /\ last.op = "is_empty" => (last.tag = "true") = (deque = << >>)

\* pop_front removed the only node of the list, which both head and tail held.
C25_Witness ==
    /\ last.op = "pop_front"
    /\ Len(last.data0) = 1
    /\ last.tag = "Some"
    /\ list.head = None
    /\ list.tail = None

\* pop_back returned the last of three keys pushed at different ends.
C25_WitnessBack ==
    /\ last.op = "pop_back"
    /\ Len(last.data0) = MaxNodes
    /\ last.tag = "Some"
    /\ last.val # Head(last.data0)

\* A pop of the empty list returned None.
C25_WitnessEmpty ==
    /\ last.op \in {"pop_front", "pop_back"}
    /\ last.tag = "None"
    /\ is_empty(list)

-----------------------------------------------------------------------------
Next ==
    \/ Push
    \/ ChangeSizeTo
    \/ HeapifyTop
    \/ HeapifyBottom
    \/ NodeAt
    \/ HeapsortIter
    \/ HeapsortReturn

\* A caller's heap under the mutating operations, and heapsort step by step.
Spec == Init /\ [][Next]_vars

InitPush == InitNew \/ InitFromVec

NextPush == Push

\* A heap made by new or from_vec and grown by pushes alone.
SpecPush == InitPush /\ [][NextPush]_vars

NextTest ==
    \/ PushNext
    \/ Parent
    \/ Left
    \/ Right
    \/ Height
    \/ NodeHeight
    \/ NodeAt

\* The two construction tests, and the read-only operations on their heaps.
SpecTest == InitTest /\ [][NextTest]_vars

NextSearch == BinarySearch

\* binary_search over the sorted slices.
SpecSearch == InitSearch /\ [][NextSearch]_vars

NextNav ==
    \/ ChangeSizeTo
    \/ Parent
    \/ Left
    \/ Right
    \/ Height
    \/ NodeHeight

\* A caller's heap under the read-only navigation and change_size_to.
SpecNav == InitNav /\ [][NextNav]_vars

NextList ==
    \/ PushFront
    \/ PushBack
    \/ PopFront
    \/ PopBack
    \/ IsEmpty

\* A caller's DoubleLinked under every interleaving of its operations.
SpecList == InitList /\ [][NextList]_vars

====
